---- MODULE Spec2Model ----
(***************************************************************************)
(* misery-rs: MiseryHandler<K, V>, a HashSet of CacheWrapper<K, V> behind  *)
(* an async RwLock, loaded from a JSON file by load_from_blocking and      *)
(* written back to it by Drop.                                             *)
(*                                                                         *)
(* Every .await on the lock is a step of its own: a call first waits for   *)
(* the lock (pc "..._wait"), then holds it (pc "..._hold"), then acts on   *)
(* the set and releases it in the same statement.  The file system is      *)
(* taken to be reliable: open, set_len and write succeed.  What a file     *)
(* holds is an input: it may be absent, empty, malformed or not UTF-8.     *)
(***************************************************************************)
EXTENDS Integers, Sequences, FiniteSets, TLC

\* ---------------------------------------------------------------- bounds
NumCallers == 2
MaxCalls == 2
MaxSeqCalls == 3
MaxLives == 2
NumVec == 5

\* buffer_unordered(4) of the tests
FanOut == 4

Callers == 1..NumCallers
Workers == 1..FanOut
Tasks == Callers \cup Workers
Keys == {"abc", "def"}
Values == {123, 456}

\* ------------------------------------------------------------ CacheWrapper
CacheWrapper == [key : Keys, value : Values]

new(k, v) == [key |-> k, value |-> v]

\* the vec of the tests: one entry per key, all keys distinct
TestKeys == <<"abc", "def", "ghi", "jkm", "nop", "qrs", "tuv">>
TestVec == [i \in 1..NumVec |-> new(TestKeys[((i - 1) % 7) + 1], 100 * ((i - 1) \div 7) + i)]

Range(s) == {s[i] : i \in 1..Len(s)}

\* the orders in which a HashSet of the elements S can be iterated
RECURSIVE Iterations(_)
Iterations(S) ==
    IF S = {} THEN {<<>>}
    ELSE UNION {{<<c>> \o s : s \in Iterations(S \ {c})} : c \in S}

KeysIn(S) == {c.key : c \in S}

\* which entry of each key a HashSet of the elements S can meet first
RECURSIVE FirstsOver(_, _)
FirstsOver(S, K) ==
    IF K = {} THEN {[k \in {} |-> k]}
    ELSE LET k == CHOOSE x \in K : TRUE IN
         {[j \in K |-> IF j = k THEN c ELSE f[j]] :
             f \in FirstsOver(S, K \ {k}), c \in {d \in S : d.key = k}}

Firsts(S) == FirstsOver(S, KeysIn(S))

\* the iteration orders of S that meet f[k] before any other entry of key k
IterationsFrom(S, f) ==
    {s \in Iterations(S) :
        \A i \in 1..Len(s) :
            (\A j \in 1..(i - 1) : s[j].key # s[i].key) => s[i] = f[s[i].key]}

\* ------------------------------------------------------------- file text
LB == [tok |-> "["]
RB == [tok |-> "]"]
Junk == [tok |-> "junk"]
BadByte == [tok |-> "0xFF"]
Obj(c) == [tok |-> "obj", key |-> c.key, value |-> c.value]

NoFile == [exists |-> FALSE, text |-> <<>>]
FileOf(text) == [exists |-> TRUE, text |-> text]

\* serde_json::to_string of a Vec<&CacheWrapper>
to_string(vec) == <<LB>> \o [i \in 1..Len(vec) |-> Obj(vec[i])] \o <<RB>>

IsArray(text) ==
    /\ Len(text) >= 2
    /\ text[1] = LB
    /\ text[Len(text)] = RB
    /\ \A i \in 2..(Len(text) - 1) : text[i].tok = "obj"

\* serde_json::from_str::<HashSet<CacheWrapper>>
from_str(text) ==
    IF IsArray(text)
    THEN [ok |-> TRUE,
          val |-> {new(text[i].key, text[i].value) : i \in 2..(Len(text) - 1)}]
    ELSE [ok |-> FALSE, val |-> {}]

unwrap_or_default(r) == IF r.ok THEN r.val ELSE {}

\* File::read_to_string: Err on bytes that are not UTF-8
read_to_string(text) ==
    [ok |-> \A i \in 1..Len(text) : text[i] # BadByte, buf |-> text]

\* OpenOptions read+write, and create on failure
open(f) == [exists |-> TRUE, text |-> f.text]

\* mutant: the file keeps its length
set_lenSkipped(f) == [exists |-> TRUE, text |-> f.text]

\* File::set_len(0)
set_len(f) == [exists |-> TRUE, text |-> <<>>]

\* mutant: the data never reaches the file
write_atLost(f, data) == f

\* File::write at the cursor of a fresh handle (offset 0)
write_at(f, data) ==
    [exists |-> TRUE,
     text |-> data \o SubSeq(f.text, Len(data) + 1, Len(f.text))]

\* ------------------------------------------------------------------ state
VARIABLES
    file,        \* the backing file at `path`
    storeState,  \* "Unborn" | "Open" | "Dropping" | "Closed" | "Panicked"
    caches,      \* the HashSet behind the RwLock
    first,       \* per key in it: the entry of that key its iteration meets first
    writers,     \* tasks holding the RwLock in write mode
    readers,     \* tasks holding the RwLock in read mode
    writePref,   \* whether a waiting writer keeps new readers out
    pc,          \* per task: where its call stands
    op,          \* per task: the call it is in
    ret,         \* per task: what the call returns
    dropPc,      \* where Drop stands inside write()
    wbuf,        \* cache_string of write()
    lives,       \* stores constructed so far
    loaded,      \* the set the current store was constructed with
    flushes,     \* runs of write() completed by the current store
    calls,       \* calls made so far
    trace,       \* calls completed by the single caller of the usage scenario
    todo,        \* the vec the fan-out scenario pushes
    pending,     \* the part of it not yet handed to a task
    peak,        \* the most pushes the fan-out scenario had in flight
    dropped,     \* the set the store dropped last held
    fault,       \* what failed in the last write(): "none" | "encode" | "write"
    other        \* a second handler on the same path: its set and its write()

vars == <<file, storeState, caches, first, writers, readers, writePref, pc, op, ret,
          dropPc, wbuf, lives, loaded, flushes, calls, trace, todo, pending, peak,
          dropped, fault, other>>

fileVars == <<file, dropPc, wbuf, flushes>>
lifeVars == <<storeState, lives, loaded, writePref>>
harness == <<calls, trace, todo, pending, peak>>
teardown == <<dropped, fault, other>>

NoOther == [pc |-> "none", caches |-> {}, wbuf |-> <<>>]

Dropper == 0

NoOp == [name |-> "none"]
OpPush(c) == [name |-> "push", cache |-> c]
OpAbs(c) == [name |-> "abs", cache |-> c]
OpRemove(k) == [name |-> "remove", key |-> k]
OpFind(k) == [name |-> "find", key |-> k]
OpFindValue(k) == [name |-> "find_value", key |-> k]
OpAllItems == [name |-> "all_items"]

Ops == {OpPush(c) : c \in CacheWrapper} \cup {OpAbs(c) : c \in CacheWrapper}
       \cup {OpRemove(k) : k \in Keys} \cup {OpFind(k) : k \in Keys}
       \cup {OpFindValue(k) : k \in Keys} \cup {OpAllItems}

KeyOf(o) == IF o.name \in {"push", "abs"} THEN o.cache.key ELSE o.key

WriteWaits == {"push_wait", "remove_wait"}
ReadWaits == {"find_wait", "find_value_wait", "all_items_wait"}
WriteHolds == {"push_hold", "remove_hold"}
ReadHolds == {"find_hold", "find_value_hold", "all_items_hold"}

Idle == \A t \in Tasks : pc[t] = "idle"

\* the files a store may be constructed on first
InitFiles ==
    {NoFile, FileOf(<<>>), FileOf(<<Junk>>), FileOf(<<BadByte>>),
     FileOf(<<LB, Obj(new("abc", 123))>>),
     FileOf(to_string(<<new("def", 123), new("def", 456)>>))}

InitCommon ==
    /\ storeState = "Unborn"
    /\ caches = {}
    /\ first \in Firsts({})
    /\ writers = {}
    /\ readers = {}
    /\ writePref \in BOOLEAN
    /\ pc = [t \in Tasks |-> "idle"]
    /\ op = [t \in Tasks |-> NoOp]
    /\ ret = [t \in Tasks |-> <<>>]
    /\ dropPc = "none"
    /\ wbuf = <<>>
    /\ lives = 0
    /\ loaded = {}
    /\ flushes = 0
    /\ calls = 0
    /\ trace = <<>>
    /\ dropped = {}
    /\ fault = "none"

Init ==
    /\ InitCommon
    /\ file \in InitFiles
    /\ todo = <<>>
    /\ pending = <<>>
    /\ peak = 0
    /\ other = NoOther

\* ------------------------------------------------- load_from_blocking
Construct ==
    /\ storeState \in {"Unborn", "Closed"}
    /\ file' = open(file)
    /\ LET r == read_to_string(file.text) IN
         IF r.ok
         THEN /\ storeState' = "Open"
              /\ caches' = unwrap_or_default(from_str(r.buf))
              /\ first' \in Firsts(unwrap_or_default(from_str(r.buf)))
              /\ loaded' = unwrap_or_default(from_str(r.buf))
              /\ lives' = lives + 1
         ELSE /\ storeState' = "Panicked"
              /\ UNCHANGED <<caches, first, loaded, lives>>
    /\ writers' = {}
    /\ readers' = {}
    /\ flushes' = 0
    /\ UNCHANGED <<writePref, pc, op, ret, dropPc, wbuf, harness, teardown>>

\* ---------------------------------------------------------------- calls
EntryPc(o) ==
    CASE o.name = "push" -> "push_wait"
      [] o.name = "abs" -> "remove_wait"
      [] o.name = "remove" -> "remove_wait"
      [] o.name = "find" -> "find_wait"
      [] o.name = "find_value" -> "find_value_wait"
      [] o.name = "all_items" -> "all_items_wait"

\* a caller invokes o on the store: everything but the harness variables
Call(t, o) ==
    /\ storeState = "Open"
    /\ pc[t] = "idle"
    /\ pc' = [pc EXCEPT ![t] = EntryPc(o)]
    /\ op' = [op EXCEPT ![t] = o]
    /\ UNCHANGED <<caches, first, writers, readers, ret, fileVars, lifeVars, teardown>>

\* mutant: a writer that does not wait for the readers to leave
WriteLockOverReaders(t) ==
    /\ pc[t] \in {"push_wait", "remove_wait"}
    /\ writers = {}
    /\ writers' = {t}
    /\ pc' = [pc EXCEPT ![t] = IF pc[t] = "push_wait" THEN "push_hold" ELSE "remove_hold"]
    /\ UNCHANGED <<caches, first, readers, op, ret, fileVars, lifeVars, harness, teardown>>

\* RwLock::write().await
WriteLock(t) ==
    /\ pc[t] \in WriteWaits
    /\ writers = {}
    /\ readers = {}
    /\ writers' = {t}
    /\ pc' = [pc EXCEPT ![t] = IF pc[t] = "push_wait" THEN "push_hold" ELSE "remove_hold"]
    /\ UNCHANGED <<caches, first, readers, op, ret, fileVars, lifeVars, harness, teardown>>

\* mutant: a lock that admits one reader at a time
ReadLockExclusive(t) ==
    /\ pc[t] \in {"find_wait", "find_value_wait", "all_items_wait"}
    /\ writers = {}
    /\ readers = {}
    /\ readers' = readers \cup {t}
    /\ pc' = [pc EXCEPT ![t] = CASE pc[t] = "find_wait" -> "find_hold"
                                 [] pc[t] = "find_value_wait" -> "find_value_hold"
                                 [] pc[t] = "all_items_wait" -> "all_items_hold"]
    /\ UNCHANGED <<caches, first, writers, op, ret, fileVars, lifeVars, harness, teardown>>

\* RwLock::read().await
ReadLock(t) ==
    /\ pc[t] \in ReadWaits
    /\ writers = {}
    /\ writePref => \A u \in Tasks : pc[u] \notin WriteWaits
    /\ readers' = readers \cup {t}
    /\ pc' = [pc EXCEPT ![t] = CASE pc[t] = "find_wait" -> "find_hold"
                                 [] pc[t] = "find_value_wait" -> "find_value_hold"
                                 [] pc[t] = "all_items_wait" -> "all_items_hold"]
    /\ UNCHANGED <<caches, first, writers, op, ret, fileVars, lifeVars, harness, teardown>>

\* mutant: the insert replaces the set
InsertAlone(t) ==
    /\ pc[t] = "push_hold"
    /\ caches' = {op[t].cache}
    /\ first' \in Firsts({op[t].cache})
    /\ writers' = writers \ {t}
    /\ pc' = [pc EXCEPT ![t] = "ret"]
    /\ UNCHANGED <<readers, op, ret, fileVars, lifeVars, harness, teardown>>

\* mutant: write-through, every push rewrites the file
InsertFlushing(t) ==
    /\ pc[t] = "push_hold"
    /\ caches' = caches \cup {op[t].cache}
    /\ first' \in Firsts(caches \cup {op[t].cache})
    /\ writers' = writers \ {t}
    /\ pc' = [pc EXCEPT ![t] = "ret"]
    /\ \E s \in Iterations(caches \cup {op[t].cache}) :
          file' = [exists |-> TRUE, text |-> to_string(s)]
    /\ flushes' = flushes + 1
    /\ UNCHANGED <<readers, op, ret, dropPc, wbuf, lifeVars, harness, teardown>>

\* mutant: a map keyed by the key, the insert overwrites the entry of the key
InsertUpsert(t) ==
    /\ pc[t] = "push_hold"
    /\ caches' = {c \in caches : c.key # op[t].cache.key} \cup {op[t].cache}
    /\ first' \in Firsts({c \in caches : c.key # op[t].cache.key} \cup {op[t].cache})
    /\ writers' = writers \ {t}
    /\ pc' = [pc EXCEPT ![t] = "ret"]
    /\ UNCHANGED <<readers, op, ret, fileVars, lifeVars, harness, teardown>>

\* push: insert under the write guard, which the statement then drops
Insert(t) ==
    /\ pc[t] = "push_hold"
    /\ caches' = caches \cup {op[t].cache}
    /\ first' \in Firsts(caches \cup {op[t].cache})
    /\ writers' = writers \ {t}
    /\ pc' = [pc EXCEPT ![t] = "ret"]
    /\ UNCHANGED <<readers, op, ret, fileVars, lifeVars, harness, teardown>>

\* mutant: the predicate of retain inverted
RetainInverted(t) ==
    /\ pc[t] = "remove_hold"
    /\ caches' = {c \in caches : c.key = KeyOf(op[t])}
    /\ first' = [k \in KeysIn(caches) \cap {KeyOf(op[t])} |-> first[k]]
    /\ writers' = writers \ {t}
    /\ pc' = [pc EXCEPT ![t] = IF op[t].name = "abs" THEN "push_wait" ELSE "ret"]
    /\ UNCHANGED <<readers, op, ret, fileVars, lifeVars, harness, teardown>>

\* mutant: only the first entry found with the key is removed
RetainOne(t) ==
    /\ pc[t] = "remove_hold"
    /\ \/ /\ {c \in caches : c.key = KeyOf(op[t])} = {}
          /\ caches' = caches
          /\ first' = first
       \/ \E d \in {c \in caches : c.key = KeyOf(op[t])} :
             /\ caches' = caches \ {d}
             /\ first' \in Firsts(caches \ {d})
    /\ writers' = writers \ {t}
    /\ pc' = [pc EXCEPT ![t] = IF op[t].name = "abs" THEN "push_wait" ELSE "ret"]
    /\ UNCHANGED <<readers, op, ret, fileVars, lifeVars, harness, teardown>>

\* mutant: the set cleared
RetainClears(t) ==
    /\ pc[t] = "remove_hold"
    /\ caches' = {}
    /\ first' \in Firsts({})
    /\ writers' = writers \ {t}
    /\ pc' = [pc EXCEPT ![t] = IF op[t].name = "abs" THEN "push_wait" ELSE "ret"]
    /\ UNCHANGED <<readers, op, ret, fileVars, lifeVars, harness, teardown>>

\* mutant: abs keeps the write guard of its remove while it awaits its push
RetainHoldsGuard(t) ==
    /\ pc[t] = "remove_hold"
    /\ caches' = {c \in caches : c.key # KeyOf(op[t])}
    /\ first' = [k \in KeysIn(caches) \ {KeyOf(op[t])} |-> first[k]]
    /\ writers' = IF op[t].name = "abs" THEN writers ELSE writers \ {t}
    /\ pc' = [pc EXCEPT ![t] = IF op[t].name = "abs" THEN "push_wait" ELSE "ret"]
    /\ UNCHANGED <<readers, op, ret, fileVars, lifeVars, harness, teardown>>

\* remove: retain under the write guard; abs goes on to its push
Retain(t) ==
    /\ pc[t] = "remove_hold"
    /\ caches' = {c \in caches : c.key # KeyOf(op[t])}
    /\ first' = [k \in KeysIn(caches) \ {KeyOf(op[t])} |-> first[k]]
    /\ writers' = writers \ {t}
    /\ pc' = [pc EXCEPT ![t] = IF op[t].name = "abs" THEN "push_wait" ELSE "ret"]
    /\ UNCHANGED <<readers, op, ret, fileVars, lifeVars, harness, teardown>>

Matches(k) == {c \in caches : c.key = k}

\* iter().find(|temp| temp.as_ref_key() == key): the first match in the set's
\* iteration order, as an Option
IterFind(k) == IF k \in DOMAIN first THEN <<first[k]>> ELSE <<>>

Find(t) ==
    /\ pc[t] = "find_hold"
    /\ ret' = [ret EXCEPT ![t] = IterFind(op[t].key)]
    /\ readers' = readers \ {t}
    /\ pc' = [pc EXCEPT ![t] = "ret"]
    /\ UNCHANGED <<caches, first, writers, op, fileVars, lifeVars, harness, teardown>>

\* mutant: find_value takes the value of any entry of the key
FindValueAny(t) ==
    /\ pc[t] = "find_value_hold"
    /\ \/ /\ Matches(op[t].key) = {}
          /\ ret' = [ret EXCEPT ![t] = <<>>]
       \/ \E c \in Matches(op[t].key) : ret' = [ret EXCEPT ![t] = <<c.value>>]
    /\ readers' = readers \ {t}
    /\ pc' = [pc EXCEPT ![t] = "ret"]
    /\ UNCHANGED <<caches, first, writers, op, fileVars, lifeVars, harness, teardown>>

FindValue(t) ==
    /\ pc[t] = "find_value_hold"
    /\ ret' = [ret EXCEPT ![t] = IF IterFind(op[t].key) = <<>>
                                 THEN <<>>
                                 ELSE <<IterFind(op[t].key)[1].value>>]
    /\ readers' = readers \ {t}
    /\ pc' = [pc EXCEPT ![t] = "ret"]
    /\ UNCHANGED <<caches, first, writers, op, fileVars, lifeVars, harness, teardown>>

AllItems(t) ==
    /\ pc[t] = "all_items_hold"
    /\ \E s \in IterationsFrom(caches, first) : ret' = [ret EXCEPT ![t] = s]
    /\ readers' = readers \ {t}
    /\ pc' = [pc EXCEPT ![t] = "ret"]
    /\ UNCHANGED <<caches, first, writers, op, fileVars, lifeVars, harness, teardown>>

\* the call's future resolves: everything but the harness variables
Return(t) ==
    /\ pc[t] = "ret"
    /\ pc' = [pc EXCEPT ![t] = "idle"]
    /\ op' = [op EXCEPT ![t] = NoOp]
    /\ ret' = [ret EXCEPT ![t] = <<>>]
    /\ UNCHANGED <<caches, first, writers, readers, fileVars, lifeVars, teardown>>

\* ------------------------------------------------------ Drop: write()
DropOpen ==
    /\ storeState = "Open"
    /\ Idle
    /\ storeState' = "Dropping"
    /\ dropPc' = "opened"
    /\ file' = open(file)
    /\ UNCHANGED <<caches, first, writers, readers, writePref, pc, op, ret, wbuf, lives,
                   loaded, flushes, harness, teardown>>

DropSetLen ==
    /\ dropPc = "opened"
    /\ file' = set_len(file)
    /\ dropPc' = "truncated"
    /\ UNCHANGED <<caches, first, writers, readers, pc, op, ret, wbuf, flushes,
                   lifeVars, harness, teardown>>

DropReadLock ==
    /\ dropPc = "truncated"
    /\ writers = {}
    /\ writePref => \A u \in Tasks : pc[u] \notin WriteWaits
    /\ readers' = readers \cup {Dropper}
    /\ dropPc' = "locked"
    /\ UNCHANGED <<file, caches, first, writers, pc, op, ret, wbuf, flushes,
                   lifeVars, harness, teardown>>

\* mutant: the read guard bound to a name and held until write() returns
DropSerializeHoldsGuard ==
    /\ dropPc = "locked"
    /\ \E s \in IterationsFrom(caches, first) : wbuf' = to_string(s)
    /\ dropPc' = "serialized"
    /\ UNCHANGED <<file, caches, first, writers, readers, pc, op, ret, flushes, lifeVars,
                   harness, teardown>>

DropSerialize ==
    /\ dropPc = "locked"
    /\ \E s \in IterationsFrom(caches, first) : wbuf' = to_string(s)
    /\ readers' = readers \ {Dropper}
    /\ dropPc' = "serialized"
    /\ UNCHANGED <<file, caches, first, writers, pc, op, ret, flushes, lifeVars, harness, teardown>>

DropWrite ==
    /\ dropPc = "serialized"
    /\ file' = write_at(file, wbuf)
    /\ flushes' = flushes + 1
    /\ wbuf' = <<>>
    /\ dropPc' = "none"
    /\ storeState' = "Closed"
    /\ dropped' = caches
    /\ caches' = {}
    /\ first' \in Firsts({})
    /\ UNCHANGED <<writers, readers, writePref, pc, op, ret, lives, loaded, harness,
                   fault, other>>

\* ------------------------------------------- concurrent callers, any call
Invoke(t) ==
    /\ calls < MaxCalls
    /\ \E o \in Ops : Call(t, o)
    /\ calls' = calls + 1
    /\ UNCHANGED <<trace, todo, pending, peak>>

Complete(t) == Return(t) /\ UNCHANGED harness

\* the owner constructs a store, and another one on the same path after it
Load == lives < MaxLives /\ Construct

Next ==
    \/ Load
    \/ \E t \in Callers : Invoke(t)
    \/ \E t \in Callers : WriteLock(t)
    \/ \E t \in Callers : ReadLock(t)
    \/ \E t \in Callers : Insert(t)
    \/ \E t \in Callers : Retain(t)
    \/ \E t \in Callers : Find(t)
    \/ \E t \in Callers : FindValue(t)
    \/ \E t \in Callers : AllItems(t)
    \/ \E t \in Callers : Complete(t)
    \/ DropOpen
    \/ DropSetLen
    \/ DropReadLock
    \/ DropSerialize
    \/ DropWrite

Spec == Init /\ [][Next]_vars

\* ------------------------------- one caller, one call at a time (usage_test)
SeqFiles ==
    {NoFile}
    \cup {FileOf(to_string(CHOOSE s \in Iterations(S) : TRUE)) : S \in SUBSET CacheWrapper}

\* one caller never waits for the lock: its policy is left at one value
InitSeq ==
    /\ InitCommon
    /\ writePref = FALSE
    /\ file \in SeqFiles
    /\ todo = <<>>
    /\ pending = <<>>
    /\ peak = 0
    /\ other = NoOther

InvokeSeq ==
    /\ calls < MaxSeqCalls
    /\ \E o \in Ops : Call(1, o)
    /\ calls' = calls + 1
    /\ UNCHANGED <<trace, todo, pending, peak>>

CompleteSeq ==
    /\ Return(1)
    /\ trace' = Append(trace, [op |-> op[1], life |-> lives, after |-> caches,
                                found |-> IF op[1].name \in {"find", "find_value"}
                                          THEN ret[1]
                                          ELSE <<>>])
    /\ UNCHANGED <<calls, todo, pending, peak>>

LoadSeq == lives = 0 /\ Construct

NextSeq ==
    \/ LoadSeq
    \/ InvokeSeq
    \/ WriteLock(1)
    \/ ReadLock(1)
    \/ Insert(1)
    \/ Retain(1)
    \/ Find(1)
    \/ FindValue(1)
    \/ AllItems(1)
    \/ CompleteSeq

SpecSeq == InitSeq /\ [][NextSeq]_vars

\* ---------- fan-out of pushes, drop, reopen, all_items (all_method_test)
Prefixes(vec) == {SubSeq(vec, 1, n) : n \in 0..Len(vec)}

TodoChoices ==
    Prefixes(TestVec) \cup UNION {[1..n -> CacheWrapper] : n \in 1..2}

InitFan ==
    /\ InitCommon
    /\ file \in {NoFile, FileOf(<<>>)}
    /\ todo \in TodoChoices
    /\ pending = todo
    /\ peak = 0
    /\ other = NoOther

InFlight == {t \in Workers : pc[t] # "idle"}

\* the stream hands its next entry to a free slot of the buffer
Spawn(t) ==
    /\ lives = 1
    /\ pending # <<>>
    /\ t \in Workers \ InFlight
    /\ \A u \in Workers \ InFlight : t <= u
    /\ Call(t, OpPush(Head(pending)))
    /\ pending' = Tail(pending)
    /\ calls' = calls + 1
    /\ peak' = IF Cardinality(InFlight) + 1 > peak THEN Cardinality(InFlight) + 1 ELSE peak
    /\ UNCHANGED <<trace, todo>>

\* the scope of the handler ends once the stream is collected
DropOpenFan == pending = <<>> /\ DropOpen

\* handler.all() of the reopened store
CallAll ==
    /\ lives = 2
    /\ calls = Len(todo)
    /\ Call(1, OpAllItems)
    /\ calls' = calls + 1
    /\ UNCHANGED <<trace, todo, pending, peak>>

\* the two handlers of the test, the second once the first is dropped
LoadFan == lives < 2 /\ Construct

NextFan ==
    \/ LoadFan
    \/ \E t \in Workers : Spawn(t)
    \/ CallAll
    \/ \E t \in Workers : WriteLock(t)
    \/ \E t \in Workers : ReadLock(t)
    \/ \E t \in Workers : Insert(t)
    \/ \E t \in Workers : AllItems(t)
    \/ \E t \in Workers : Complete(t)
    \/ DropOpenFan
    \/ DropSetLen
    \/ DropReadLock
    \/ DropSerialize
    \/ DropWrite

SpecFan == InitFan /\ [][NextFan]_vars

\* ------------------- two handlers constructed on one path, both dropped
\* the state of the first handler that the flush of the second leaves alone
mine == <<storeState, caches, first, writers, readers, writePref, pc, op, ret,
          dropPc, wbuf, lives, loaded, flushes, harness, fault>>

\* Drop of the second handler: open() of its write()
OtherOpen ==
    /\ other.pc = "open"
    /\ file' = open(file)
    /\ other' = [other EXCEPT !.pc = "opened"]
    /\ UNCHANGED <<mine, dropped>>

\* file.set_len(0) of the second handler
OtherSetLen ==
    /\ other.pc = "opened"
    /\ file' = set_len(file)
    /\ other' = [other EXCEPT !.pc = "truncated"]
    /\ UNCHANGED <<mine, dropped>>

\* to_string under the read guard of the second handler's own lock
OtherSerialize ==
    /\ other.pc = "truncated"
    /\ \E s \in Iterations(other.caches) :
          other' = [other EXCEPT !.pc = "serialized", !.wbuf = to_string(s)]
    /\ UNCHANGED <<file, mine, dropped>>

\* file.write(..) of the second handler, the end of its drop
OtherWrite ==
    /\ other.pc = "serialized"
    /\ file' = write_at(file, other.wbuf)
    /\ dropped' = other.caches
    /\ other' = [other EXCEPT !.pc = "done", !.wbuf = <<>>]
    /\ UNCHANGED mine

\* the second handler is open on the path and holds any set
InitTwo ==
    /\ InitCommon
    /\ file \in SeqFiles
    /\ todo = <<>>
    /\ pending = <<>>
    /\ peak = 0
    /\ other \in [pc : {"open"}, caches : SUBSET CacheWrapper, wbuf : {<<>>}]

LoadTwo == lives = 0 /\ Construct

NextTwo ==
    \/ LoadTwo
    \/ DropOpen
    \/ DropSetLen
    \/ DropReadLock
    \/ DropSerialize
    \/ DropWrite
    \/ OtherOpen
    \/ OtherSetLen
    \/ OtherSerialize
    \/ OtherWrite

SpecTwo == InitTwo /\ [][NextTwo]_vars

\* ------------------------------ write() with steps of the flush that fail
\* serde_json::to_string returns Err: expect("cannot serialize to string")
\* panics, the unwinding drops the read guard and the fields of the handler
DropSerializeFail ==
    /\ dropPc = "locked"
    /\ fault' = "encode"
    /\ readers' = readers \ {Dropper}
    /\ dropPc' = "none"
    /\ storeState' = "Panicked"
    /\ dropped' = caches
    /\ caches' = {}
    /\ first' \in Firsts({})
    /\ UNCHANGED <<file, writers, writePref, pc, op, ret, wbuf, lives, loaded, flushes,
                   harness, other>>

\* mutant: the result of the write unwrapped with expect
DropWriteFailExpect ==
    /\ dropPc = "serialized"
    /\ fault' = "write"
    /\ wbuf' = <<>>
    /\ dropPc' = "none"
    /\ storeState' = "Panicked"
    /\ dropped' = caches
    /\ caches' = {}
    /\ first' \in Firsts({})
    /\ UNCHANGED <<file, writers, readers, writePref, pc, op, ret, lives, loaded,
                   flushes, harness, other>>

\* file.write(..) returns Err: let _ = discards it, write() returns and the
\* drop ends with the file as the truncation left it
DropWriteFail ==
    /\ dropPc = "serialized"
    /\ fault' = "write"
    /\ flushes' = flushes + 1
    /\ wbuf' = <<>>
    /\ dropPc' = "none"
    /\ storeState' = "Closed"
    /\ dropped' = caches
    /\ caches' = {}
    /\ first' \in Firsts({})
    /\ UNCHANGED <<file, writers, readers, writePref, pc, op, ret, lives, loaded,
                   harness, other>>

NextIO ==
    \/ Next
    \/ DropSerializeFail
    \/ DropWriteFail

SpecIO == Init /\ [][NextIO]_vars

\* ------------- concurrent callers under a scheduler that polls every task
\* the executor polls every future that can make progress, and the lock wakes
\* its waiters when a guard is dropped
LoadFair == lives = 0 /\ Construct

\* the lock steps do not read the entries: one call of each method
FairOps ==
    {OpPush(new("abc", 123)), OpAbs(new("abc", 123)), OpRemove("abc"),
     OpFind("abc"), OpFindValue("abc"), OpAllItems}

InitFair ==
    /\ InitCommon
    /\ file \in {NoFile, FileOf(to_string(<<new("abc", 123), new("abc", 456)>>))}
    /\ todo = <<>>
    /\ pending = <<>>
    /\ peak = 0
    /\ other = NoOther

InvokeFair(t) ==
    /\ calls < MaxCalls
    /\ \E o \in FairOps : Call(t, o)
    /\ calls' = calls + 1
    /\ UNCHANGED <<trace, todo, pending, peak>>

NextFair ==
    \/ LoadFair
    \/ \E t \in Callers : InvokeFair(t)
    \/ \E t \in Callers : WriteLock(t)
    \/ \E t \in Callers : ReadLock(t)
    \/ \E t \in Callers : Insert(t)
    \/ \E t \in Callers : Retain(t)
    \/ \E t \in Callers : Find(t)
    \/ \E t \in Callers : FindValue(t)
    \/ \E t \in Callers : AllItems(t)
    \/ \E t \in Callers : Complete(t)

Fairness ==
    \A t \in Callers :
        /\ WF_vars(WriteLock(t))
        /\ WF_vars(ReadLock(t))
        /\ WF_vars(Insert(t))
        /\ WF_vars(Retain(t))
        /\ WF_vars(Find(t))
        /\ WF_vars(FindValue(t))
        /\ WF_vars(AllItems(t))
        /\ WF_vars(Complete(t))

SpecFair == InitFair /\ [][NextFair]_vars /\ Fairness

\* ======================================================== the claims
KeysUnique(S) == \A c, d \in S : c.key = d.key => c = d

Last(s) == s[Len(s)]
Prev(s) == s[Len(s) - 1]

\* C1: after completed push, replace and remove operations on a store that
\* started with an empty collection, no two entries of the collection have
\* equal keys.  (Stated as the claim has it; push breaks it.)
C1_KeysUniqueAfterOps ==
    (storeState = "Open" /\ loaded = {} /\ Idle) => KeysUnique(caches)

\* C2: replace(k, v1) and then replace(k, v2), v1 # v2, run one after the other
\* on any collection: the collection then holds exactly one entry of key k, a
\* following find_value(k) returns v2 and a following all_items() lists exactly
\* one entry of key k.
C2_ReplaceTwice ==
    \A k \in Keys, v1, v2 \in Values :
        ( /\ v1 # v2
          /\ Len(trace) >= 2
          /\ Prev(trace).op = OpAbs(new(k, v1))
          /\ Last(trace).op = OpAbs(new(k, v2)) )
        => /\ {c \in Last(trace).after : c.key = k} = {new(k, v2)}
           /\ (pc[1] = "ret" /\ op[1] = OpFindValue(k)) => ret[1] = <<v2>>
           /\ (pc[1] = "ret" /\ op[1] = OpAllItems)
                 => Cardinality({i \in 1..Len(ret[1]) : ret[1][i].key = k}) = 1

\* the store held both values of a key, then replace, replace, find_value
C2_Witness ==
    \E k \in Keys, v1, v2 \in Values :
        /\ v1 # v2
        /\ {new(k, v1), new(k, v2)} \subseteq loaded
        /\ Len(trace) = 2
        /\ Prev(trace).op = OpAbs(new(k, v1))
        /\ Last(trace).op = OpAbs(new(k, v2))
        /\ pc[1] = "ret"
        /\ op[1] = OpFindValue(k)
        /\ ret[1] = <<v2>>

\* C3: replace holds the write lock from the start of its remove step to the
\* end of its push step.  (Stated as the claim has it; abs takes the lock
\* twice.)
C3_ReplaceHoldsLock ==
    \A t \in Tasks :
        (op[t].name = "abs" /\ pc[t] \in {"remove_hold", "push_wait", "push_hold"})
        => writers = {t}

\* C4: after remove(k) the collection has no entry of key k and a following
\* find(k) returns None; a second remove(k) leaves the collection as the first
\* left it.
C4_RemoveThenAbsent ==
    \A k \in Keys :
        (Len(trace) >= 1 /\ Last(trace).op = OpRemove(k))
        => /\ {c \in Last(trace).after : c.key = k} = {}
           /\ (pc[1] = "ret" /\ op[1] = OpFind(k)) => ret[1] = <<>>
           /\ (pc[1] = "ret" /\ op[1] = OpRemove(k)) => caches = Last(trace).after
           /\ (Len(trace) >= 2 /\ Prev(trace).op = OpRemove(k))
                 => Last(trace).after = Prev(trace).after

\* the store held two entries of a key, then remove, remove, find
C4_Witness ==
    \E k \in Keys :
        /\ Cardinality({c \in loaded : c.key = k}) = 2
        /\ loaded # {c \in loaded : c.key = k}
        /\ Len(trace) = 2
        /\ Prev(trace).op = OpRemove(k)
        /\ Last(trace).op = OpRemove(k)
        /\ Last(trace).after # {}
        /\ pc[1] = "ret"
        /\ op[1] = OpFind(k)

\* C5: a store constructed on an empty or absent file, the entries of todo
\* pushed, the store dropped: a store constructed on the same path then holds
\* the set of the entries of todo, and its all_items() lists that set.
C5_RoundTrip ==
    (lives = 2 /\ storeState = "Open")
    => /\ caches = Range(todo)
       /\ (pc[1] = "ret" /\ op[1] = OpAllItems) => Range(ret[1]) = Range(todo)

\* the reopened store lists two entries of one key
C5_Witness ==
    /\ lives = 2
    /\ storeState = "Open"
    /\ pc[1] = "ret"
    /\ op[1] = OpAllItems
    /\ Len(ret[1]) = 2
    /\ ret[1][1].key = ret[1][2].key

DistinctKeys(vec) == \A i, j \in 1..Len(vec) : vec[i].key = vec[j].key => i = j

\* C6: K entries of pairwise distinct keys pushed concurrently into an empty
\* store, up to FanOut at a time: once all pushes have returned the collection
\* holds exactly those K entries.
C6_FanOutPushes ==
    (DistinctKeys(todo) /\ lives = 1 /\ storeState = "Open" /\ pending = <<>> /\ Idle)
    => /\ caches = Range(todo)
       /\ Cardinality(caches) = Len(todo)

\* more than FanOut entries, all pushed, FanOut of them in flight at once
C6_Witness ==
    /\ DistinctKeys(todo)
    /\ Len(todo) > FanOut
    /\ peak = FanOut
    /\ lives = 1
    /\ storeState = "Open"
    /\ pending = <<>>
    /\ Idle
    /\ Cardinality(caches) = Len(todo)

\* C7: at most one write step holds the lock, and no read holds it while a
\* write step does.
C7_WriteExclusive ==
    /\ Cardinality({t \in Tasks : pc[t] \in WriteHolds}) <= 1
    /\ (\E t \in Tasks : pc[t] \in WriteHolds)
         => /\ \A u \in Tasks : pc[u] \notin ReadHolds
            /\ dropPc # "locked"

\* a write step holds the lock while a read and a write wait for it
C7_Witness ==
    \E t, u \in Tasks :
        /\ pc[t] \in WriteHolds
        /\ pc[u] \in ReadWaits

\* C8: with no write in progress or requested, a read call that waits for the
\* lock can take it, whatever reads hold it: reads do not make reads wait.
C8_ReadsShare ==
    \A t \in Tasks :
        (pc[t] \in ReadWaits /\ \A u \in Tasks : pc[u] \notin (WriteWaits \cup WriteHolds))
        => ENABLED ReadLock(t)

\* as many reads hold the lock at once as there are callers
C8_Witness ==
    /\ Cardinality({t \in Tasks : pc[t] \in ReadHolds}) = NumCallers
    /\ Cardinality(readers) = NumCallers

\* C9: an open store has not flushed; a closed store has flushed exactly once.
C9_FlushOnce ==
    /\ storeState \in {"Open", "Dropping"} => flushes = 0
    /\ storeState = "Closed" => flushes = 1

\* the second store on the path is closed as well, after a push
C9_Witness ==
    /\ storeState = "Closed"
    /\ lives = 2
    /\ flushes = 1
    /\ calls > 0

\* C10: constructing a store on a file that does not decode to a sequence of
\* entries succeeds and gives an empty collection.  (Stated as the claim has
\* it; read() panics on a file that is not UTF-8.)
C10_LoadNeverFatal ==
    [][(storeState \in {"Unborn", "Closed"} /\ storeState' # storeState
          /\ ~from_str(file.text).ok)
       => (storeState' = "Open" /\ caches' = {})]_vars

\* the collection the i-th completed call of the one caller started from
Before(i) == IF i = 1 THEN loaded ELSE trace[i - 1].after

\* C11: push(c) leaves the collection as it was when an entry equal to c in
\* key and value is in it, and it never overwrites or removes an entry of the
\* same key and another value: after such a push both entries are in the
\* collection.
C11_PushKeepsOthers ==
    \A i \in 1..Len(trace) : \A c \in CacheWrapper :
        trace[i].op = OpPush(c)
        => /\ c \in Before(i) => trace[i].after = Before(i)
           /\ \A d \in Before(i) :
                 (d.key = c.key /\ d.value # c.value) => {c, d} \subseteq trace[i].after

\* a push next to an entry of its key and another value, then the same push
\* again
C11_Witness ==
    \E c, d \in CacheWrapper :
        /\ d.key = c.key
        /\ d.value # c.value
        /\ d \in loaded
        /\ c \notin loaded
        /\ Len(trace) = 2
        /\ trace[1].op = OpPush(c)
        /\ {c, d} \subseteq trace[1].after
        /\ trace[2].op = OpPush(c)
        /\ trace[2].after = trace[1].after

\* the texts serde_json::to_string can give for the set S
Encodings(S) == {to_string(s) : s \in Iterations(S)}

\* C12: whatever the file held before, once a store is dropped the file holds
\* exactly an encoding of the collection the store held when it was dropped
\* and nothing of the earlier content, and a store constructed on the path
\* after that holds exactly that set.
C12_FileIsDroppedCollection ==
    /\ storeState = "Closed" => (file.exists /\ file.text \in Encodings(dropped))
    /\ (storeState = "Open" /\ lives >= 2) => loaded = dropped

\* a store that loaded entries, lost some to remove and was dropped: the new
\* text is shorter than the one it replaces
C12_Witness ==
    /\ storeState = "Closed"
    /\ lives = 1
    /\ dropped # loaded
    /\ dropped \subseteq loaded
    /\ file.text \in Encodings(dropped)

\* C13: replace calls run concurrently on one store whose collection had at
\* most one entry per key: once all of them have completed, the collection
\* holds exactly one entry for each replaced key.  (Stated as the claim has
\* it; two replace calls of one key interleave as remove, remove, push, push.)
C13_ConcurrentReplaceOnePerKey ==
    ( /\ lives = 1
      /\ KeysUnique(loaded)
      /\ calls = Cardinality(Callers)
      /\ \A t \in Callers : pc[t] = "ret" /\ op[t].name = "abs" )
    => \A t \in Callers : Cardinality(Matches(KeyOf(op[t]))) = 1

\* C14: while the store is open, push, replace, remove, find, find_value and
\* all_items leave the contents of the file as they are: no step taken from
\* an open store changes the file, so the file is written by the flush of the
\* drop only.
C14_CallsLeaveFile ==
    [][storeState = "Open" => file' = file]_vars

\* calls have changed the collection of an open store and the file still
\* decodes to what was loaded
C14_Witness ==
    /\ storeState = "Open"
    /\ Idle
    /\ calls >= 2
    /\ caches # loaded
    /\ KeysIn(caches) # KeysIn(loaded)
    /\ unwrap_or_default(from_str(file.text)) = loaded

\* C15: two handlers constructed on one path, both dropped: the file then
\* holds exactly an encoding of the collection of the handler whose flush
\* finished last and nothing of the other handler's, whatever the order of
\* the truncate and write steps of the two flushes.  (Stated as the claim has
\* it; a shorter text written last keeps the tail of the longer one.)
C15_LastFlushWins ==
    (storeState = "Closed" /\ other.pc = "done") => file.text \in Encodings(dropped)

\* C16: a failure to encode the collection or to write it to the file during
\* the flush of the drop is swallowed: the drop completes and the failure is
\* not a fatal error.  (Stated as the claim has it; the failed encoding
\* panics.)
C16_FlushFailureSwallowed ==
    fault # "none" => storeState # "Panicked"

\* C16, amended: a failure to write the encoded collection to the file during
\* the flush of the drop is swallowed, the drop completes and the failure is
\* not a fatal error; a failure to encode the collection is a panic.
C16_WriteFailureSwallowed ==
    /\ fault = "write" => (storeState # "Panicked" /\ lives >= 1)
    /\ fault = "encode" => storeState = "Panicked"

\* the write of a non-empty collection failed and the store is closed, the
\* file left empty by the truncation
C16_Witness ==
    /\ fault = "write"
    /\ storeState = "Closed"
    /\ flushes = 1
    /\ dropped # {}
    /\ file.text = <<>>

\* a step that opens, reads, truncates or writes the file: the load, and
\* the open, set_len and write of the flush
FileOperation ==
    \/ storeState \in {"Unborn", "Closed"} /\ storeState' # storeState
    \/ dropPc = "none" /\ dropPc' = "opened"
    \/ dropPc = "opened" /\ dropPc' = "truncated"
    \/ dropPc = "serialized" /\ dropPc' = "none"

\* C17: no task holds the lock of the store while a file operation (open,
\* truncate, read or write) is performed: the load is over before any task
\* can take the lock, and every file operation of the flush starts and ends
\* with the lock free.
C17_NoLockDuringFileOps ==
    [][FileOperation => ( /\ readers = {} /\ writers = {}
                          /\ readers' = {} /\ writers' = {} )]_vars

\* the flush holds the read guard between its truncation and its write
C17_Witness ==
    /\ dropPc = "locked"
    /\ Dropper \in readers
    /\ caches # {}
    /\ file.text = <<>>

\* C18: in every state of the store find(k) returns an entry of the
\* collection whose key is k when there is one and None when there is none,
\* and find_value(k) returns the value of the entry that find(k) returns in
\* that state, None exactly when find(k) returns None.
C18_FindAndFindValue ==
    \A i \in 1..Len(trace) : \A k \in Keys :
        /\ trace[i].op = OpFind(k)
           => IF {c \in trace[i].after : c.key = k} = {}
              THEN trace[i].found = <<>>
              ELSE /\ Len(trace[i].found) = 1
                   /\ trace[i].found[1] \in trace[i].after
                   /\ trace[i].found[1].key = k
        /\ trace[i].op = OpFindValue(k)
           => /\ trace[i].found = <<>> <=> {c \in trace[i].after : c.key = k} = {}
              /\ (i > 1 /\ trace[i - 1].op = OpFind(k))
                    => IF trace[i - 1].found = <<>>
                       THEN trace[i].found = <<>>
                       ELSE trace[i].found = <<trace[i - 1].found[1].value>>

\* find and then find_value of a key the collection holds with two values,
\* the entry found being one a push added
C18_Witness ==
    \E k \in Keys :
        /\ Len(trace) = 3
        /\ trace[1].op.name = "push"
        /\ Cardinality({c \in trace[1].after : c.key = k}) = 2
        /\ trace[2].op = OpFind(k)
        /\ trace[2].found = <<trace[1].op.cache>>
        /\ trace[3].op = OpFindValue(k)
        /\ trace[3].found = <<trace[1].op.cache.value>>

\* the entries of S whose key is not k
Others(S, k) == {c \in S : c.key # k}

\* C20: remove(k) and replace of an entry of key k leave every entry whose key
\* is not k as it was, and push leaves every entry that was in the collection
\* in it.
C20_OtherEntriesKept ==
    \A i \in 1..Len(trace) :
        /\ trace[i].op.name \in {"remove", "abs"}
           => Others(trace[i].after, KeyOf(trace[i].op)) = Others(Before(i), KeyOf(trace[i].op))
        /\ trace[i].op.name = "push" => Before(i) \subseteq trace[i].after

\* remove, replace and push of one key next to entries of the other key
C20_Witness ==
    \E k \in Keys :
        /\ Others(loaded, k) # {}
        /\ Others(loaded, k) # loaded
        /\ Len(trace) = 3
        /\ trace[1].op = OpRemove(k)
        /\ trace[1].after = Others(loaded, k)
        /\ trace[2].op.name = "abs"
        /\ KeyOf(trace[2].op) = k
        /\ trace[3].op.name = "push"
        /\ trace[3].op.cache.key = k
        /\ Cardinality(trace[3].after) = Cardinality(Others(loaded, k)) + 2

\* C19: under a fair scheduler every push, replace, remove, find, find_value
\* and all_items that was invoked returns: no call waits for a lock that it
\* holds itself, and concurrent callers of one store never block each other
\* for good.
C19_EveryCallReturns ==
    \A t \in Callers : (pc[t] # "idle") ~> (pc[t] = "idle")

\* a replace between its remove and its push waits for the write lock while
\* another caller holds it
C19_Witness ==
    \E t, u \in Callers :
        /\ t # u
        /\ op[t].name = "abs"
        /\ pc[t] = "push_wait"
        /\ pc[u] \in WriteHolds
        /\ writers = {u}

====
